---- MODULE Spec2Model ----
(***************************************************************************)
(* Model of src/src/06-objects-tasks.js: the CssSelector class, the        *)
(* cssSelectorBuilder facade, and the Rectangle / getJSON / fromJSON       *)
(* helpers.                                                                *)
(*                                                                         *)
(* A JavaScript string is a sequence of one-character strings, so that     *)
(* concatenation is \o and '' is << >>.  A property that is null or a      *)
(* string is a sequence of at most one string: Null is << >>, the string s *)
(* is << s >>.  Arrays live in a heap (arrays) and a config holds their    *)
(* addresses, as a JavaScript object holds references.                     *)
(***************************************************************************)
EXTENDS Integers, Sequences, FiniteSets, TLC

VARIABLES
    sels,     \* heap of CssSelector instances, in creation order
    arrays,   \* heap of the arrays the configs refer to
    res,      \* cssSelectorBuilder.res
    hist,     \* per selector: the parts added successfully, in call order
    last,     \* the most recent call: what was called and what it gave
    pre,      \* the heap and the facade storage right before that call
    trace,    \* the calls made on the facade and among them on selectors, in order
    rect      \* the Rectangle / getJSON / fromJSON round trip under way

vars == <<sels, arrays, res, hist, last, pre, trace, rect>>

-----------------------------------------------------------------------------
(* Bounds of the model *)

MaxSelectors == 2      \* CssSelector instances alive at once
MaxParts == 3          \* parts added successfully, over all selectors
MaxFacadeCalls == 3    \* calls of combine and stringify in a run on the facade

(* Inputs *)

Values == { << >>, <<"a">> }
Combinators == { <<"+">>, <<"?">> }     \* a CSS combinator and a string that is none
Finite == {-12, -1, 0, 3, 10}          \* the finite numbers passed to Rectangle

-----------------------------------------------------------------------------
(* JavaScript values *)

Null == << >>
Some(s) == << s >>
Truthy(v) == v # Null /\ v[1] # << >>

DuplicateError == "Element, id and pseudo-element should not occur more then one time inside the selector"
OrderError == "Selector parts should be arranged in the following order: element, id, class, attribute, pseudo-class, pseudo-element"
NoError == ""

Builder == 0   \* the reference to cssSelectorBuilder; selectors are 1, 2, ...

-----------------------------------------------------------------------------
(* class CssSelector *)

ArrayKeys == {"class", "attr", "pseudoClass"}

\* a constructor whose configs all refer to the first three arrays of the heap
CssSelector_shared(S, A, key, value, currentOrder) ==
    LET config == [element |-> Null, id |-> Null,
                   class |-> 1, attr |-> 2, pseudoClass |-> 3,
                   pseudoElement |-> Null]
        A0 == IF A = << >> THEN << << >>, << >>, << >> >> ELSE A
        this == [config |-> config, currentOrder |-> currentOrder]
    IN  IF key \in ArrayKeys
        THEN [S |-> Append(S, this),
              A |-> [A0 EXCEPT ![config[key]] = Append(@, value)],
              err |-> NoError, ret |-> Len(S) + 1]
        ELSE [S |-> Append(S, [this EXCEPT !.config[key] = Some(value)]),
              A |-> A0, err |-> NoError, ret |-> Len(S) + 1]

\* new CssSelector(obj, currentOrder), obj holding the one entry key: value
CssSelector(S, A, key, value, currentOrder) ==
    LET n == Len(A)
        config == [element |-> Null, id |-> Null,
                   class |-> n + 1, attr |-> n + 2, pseudoClass |-> n + 3,
                   pseudoElement |-> Null]
        A0 == A \o << << >>, << >>, << >> >>
        this == [config |-> config, currentOrder |-> currentOrder]
    IN  IF key \in ArrayKeys
        THEN [S |-> Append(S, this),
              A |-> [A0 EXCEPT ![config[key]] = Append(@, value)],
              err |-> NoError, ret |-> Len(S) + 1]
        ELSE [S |-> Append(S, [this EXCEPT !.config[key] = Some(value)]),
              A |-> A0, err |-> NoError, ret |-> Len(S) + 1]

Throw(S, A, msg) == [S |-> S, A |-> A, err |-> msg, ret |-> 0]

\* element without the uniqueness check
CssSelector_element_unchecked(S, A, self, value) ==
    IF 0 < S[self].currentOrder THEN Throw(S, A, OrderError)
    ELSE [S |-> [S EXCEPT ![self].config.element = Some(value),
                          ![self].currentOrder = 0],
          A |-> A, err |-> NoError, ret |-> self]

CssSelector_element(S, A, self, value) ==
    IF Truthy(S[self].config.element) THEN Throw(S, A, DuplicateError)
    ELSE IF 0 < S[self].currentOrder THEN Throw(S, A, OrderError)
    ELSE [S |-> [S EXCEPT ![self].config.element = Some(value),
                          ![self].currentOrder = 0],
          A |-> A, err |-> NoError, ret |-> self]

\* id storing the value before the ordering check
CssSelector_id_early(S, A, self, value) ==
    IF Truthy(S[self].config.id) THEN Throw(S, A, DuplicateError)
    ELSE IF 1 < S[self].currentOrder
         THEN Throw([S EXCEPT ![self].config.id = Some(value)], A, OrderError)
    ELSE [S |-> [S EXCEPT ![self].config.id = Some(value),
                          ![self].currentOrder = 1],
          A |-> A, err |-> NoError, ret |-> self]

CssSelector_id(S, A, self, value) ==
    IF Truthy(S[self].config.id) THEN Throw(S, A, DuplicateError)
    ELSE IF 1 < S[self].currentOrder THEN Throw(S, A, OrderError)
    ELSE [S |-> [S EXCEPT ![self].config.id = Some(value),
                          ![self].currentOrder = 1],
          A |-> A, err |-> NoError, ret |-> self]

\* class keeping only the value passed last
CssSelector_class_replace(S, A, self, value) ==
    IF 2 < S[self].currentOrder THEN Throw(S, A, OrderError)
    ELSE [S |-> [S EXCEPT ![self].currentOrder = 2],
          A |-> [A EXCEPT ![S[self].config.class] = << value >>],
          err |-> NoError, ret |-> self]

CssSelector_class(S, A, self, value) ==
    IF 2 < S[self].currentOrder THEN Throw(S, A, OrderError)
    ELSE [S |-> [S EXCEPT ![self].currentOrder = 2],
          A |-> [A EXCEPT ![S[self].config.class] = Append(@, value)],
          err |-> NoError, ret |-> self]

\* attr without the ordering check
CssSelector_attr_unordered(S, A, self, value) ==
    [S |-> [S EXCEPT ![self].currentOrder = 3],
     A |-> [A EXCEPT ![S[self].config.attr] = Append(@, value)],
     err |-> NoError, ret |-> self]

CssSelector_attr(S, A, self, value) ==
    IF 3 < S[self].currentOrder THEN Throw(S, A, OrderError)
    ELSE [S |-> [S EXCEPT ![self].currentOrder = 3],
          A |-> [A EXCEPT ![S[self].config.attr] = Append(@, value)],
          err |-> NoError, ret |-> self]

\* pseudoClass leaving currentOrder as it was
CssSelector_pseudoClass_norank(S, A, self, value) ==
    IF 4 < S[self].currentOrder THEN Throw(S, A, OrderError)
    ELSE [S |-> S,
          A |-> [A EXCEPT ![S[self].config.pseudoClass] = Append(@, value)],
          err |-> NoError, ret |-> self]

CssSelector_pseudoClass(S, A, self, value) ==
    IF 4 < S[self].currentOrder THEN Throw(S, A, OrderError)
    ELSE [S |-> [S EXCEPT ![self].currentOrder = 4],
          A |-> [A EXCEPT ![S[self].config.pseudoClass] = Append(@, value)],
          err |-> NoError, ret |-> self]

CssSelector_pseudoElement(S, A, self, value) ==
    IF Truthy(S[self].config.pseudoElement) THEN Throw(S, A, DuplicateError)
    ELSE IF 5 < S[self].currentOrder THEN Throw(S, A, OrderError)
    ELSE [S |-> [S EXCEPT ![self].config.pseudoElement = Some(value),
                          ![self].currentOrder = 5],
          A |-> A, err |-> NoError, ret |-> self]

\* the forEach loops of stringify: each item between open and close
RECURSIVE Wrap(_, _, _)
Wrap(items, open, close) ==
    IF items = << >> THEN << >>
    ELSE open \o Head(items) \o close \o Wrap(Tail(items), open, close)

CssSelector_stringify(S, A, self) ==
    LET c == S[self].config
    IN  (IF Truthy(c.element) THEN c.element[1] ELSE << >>)
        \o (IF Truthy(c.id) THEN <<"#">> \o c.id[1] ELSE << >>)
        \o (IF Len(A[c.class]) # 0 THEN Wrap(A[c.class], <<".">>, << >>) ELSE << >>)
        \o (IF Len(A[c.attr]) # 0 THEN Wrap(A[c.attr], <<"[">>, <<"]">>) ELSE << >>)
        \o (IF Len(A[c.pseudoClass]) # 0
            THEN Wrap(A[c.pseudoClass], <<":">>, << >>) ELSE << >>)
        \o (IF Truthy(c.pseudoElement) THEN <<":", ":">> \o c.pseudoElement[1] ELSE << >>)

-----------------------------------------------------------------------------
(* cssSelectorBuilder: the creation methods *)

cssSelectorBuilder_element(S, A, value) == CssSelector(S, A, "element", value, 0)
cssSelectorBuilder_id(S, A, value) == CssSelector(S, A, "id", value, 1)
cssSelectorBuilder_class(S, A, value) == CssSelector(S, A, "class", value, 2)
cssSelectorBuilder_attr(S, A, value) == CssSelector(S, A, "attr", value, 3)
cssSelectorBuilder_pseudoClass(S, A, value) == CssSelector(S, A, "pseudoClass", value, 4)
cssSelectorBuilder_pseudoElement(S, A, value) == CssSelector(S, A, "pseudoElement", value, 5)

-----------------------------------------------------------------------------
(* Rectangle, getJSON, fromJSON *)

\* JavaScript values: numbers (finite, NaN, Infinity, -Infinity), null,
\* undefined and functions
Num(n) == [t |-> "number", n |-> n, s |-> "finite"]
NaN == [t |-> "number", n |-> 0, s |-> "NaN"]
Infinity == [t |-> "number", n |-> 1, s |-> "Infinity"]
NegInfinity == [t |-> "number", n |-> -1, s |-> "Infinity"]
JsNull == [t |-> "null", n |-> 0, s |-> ""]
Undefined == [t |-> "undefined", n |-> 0, s |-> ""]
Function(name) == [t |-> "function", n |-> 0, s |-> name]

Numbers == {Num(n) : n \in Finite} \cup {NaN, Infinity}

\* a * b on numbers
Times(a, b) ==
    IF a.s = "finite" /\ b.s = "finite" THEN Num(a.n * b.n)
    ELSE IF a.s = "NaN" \/ b.s = "NaN" \/ a.n = 0 \/ b.n = 0 THEN NaN
    ELSE IF (a.n < 0) = (b.n < 0) THEN Infinity ELSE NegInfinity

\* an object: its own properties in the order they were set, and its prototype
NoObject == [own |-> << >>, proto |-> "none"]

\* the objects that serve as prototypes
Prototype(name) ==
    IF name = "Rectangle.prototype"
    THEN [own |-> << [key |-> "constructor", val |-> Function("Rectangle")] >>,
          proto |-> "Object.prototype"]
    ELSE [own |-> << >>, proto |-> "null"]

RECURSIVE OwnGet(_, _)
OwnGet(own, key) ==
    IF own = << >> THEN Undefined
    ELSE IF own[Len(own)].key = key THEN own[Len(own)].val
    ELSE OwnGet(SubSeq(own, 1, Len(own) - 1), key)

HasOwn(obj, key) == \E k \in 1..Len(obj.own) : obj.own[k].key = key

\* obj[key]: the own property, or else what the prototype chain gives
RECURSIVE ChainGet(_, _)
ChainGet(name, key) ==
    IF name \in {"null", "none"} THEN Undefined
    ELSE IF HasOwn(Prototype(name), key) THEN OwnGet(Prototype(name).own, key)
    ELSE ChainGet(Prototype(name).proto, key)

Get(obj, key) ==
    IF HasOwn(obj, key) THEN OwnGet(obj.own, key) ELSE ChainGet(obj.proto, key)

\* new Rectangle(width, height)
Rectangle(width, height) ==
    [own |-> << [key |-> "width", val |-> width],
                [key |-> "height", val |-> height],
                [key |-> "getArea", val |-> Function("getArea")] >>,
     proto |-> "Rectangle.prototype"]

\* obj.getArea(), the arrow function of the rectangle `bound` having been made
\* in its constructor
GetArea(obj, bound) ==
    IF Get(obj, "getArea") = Function("getArea")
    THEN [err |-> NoError, val |-> Times(Get(bound, "width"), Get(bound, "height"))]
    ELSE [err |-> "TypeError: getArea is not a function", val |-> Undefined]

DigitChars == <<"0", "1", "2", "3", "4", "5", "6", "7", "8", "9">>

RECURSIVE Digits(_)
Digits(n) ==
    IF n < 10 THEN << DigitChars[n + 1] >>
    ELSE Digits(n \div 10) \o << DigitChars[(n % 10) + 1] >>

\* the JSON text of a number: non-finite numbers are written null
NumberText(v) ==
    IF v.s # "finite" THEN <<"null">>
    ELSE IF v.n < 0 THEN <<"-">> \o Digits(-v.n) ELSE Digits(v.n)

Quote(key) == "\"" \o key \o "\""

\* the members JSON.stringify writes: functions and undefined are left out
RECURSIVE Members(_)
Members(own) ==
    IF own = << >> THEN << >>
    ELSE LET p == Head(own)
             rest == Members(Tail(own))
         IN  IF p.val.t \in {"function", "undefined"} THEN rest
             ELSE << Quote(p.key), ":" >>
                  \o (IF p.val.t = "null" THEN <<"null">> ELSE NumberText(p.val))
                  \o (IF rest = << >> THEN << >> ELSE <<",">> \o rest)

\* getJSON(obj) = JSON.stringify(obj)
getJSON(obj) == <<"{">> \o Members(obj.own) \o <<"}">>

DigitValue(ch) == CHOOSE d \in 0..9 : DigitChars[d + 1] = ch

RECURSIVE ParseDigits(_, _)
ParseDigits(text, acc) ==
    IF text = << >> THEN acc
    ELSE ParseDigits(Tail(text), 10 * acc + DigitValue(Head(text)))

\* the value a JSON number or null stands for
ParseValue(text) ==
    IF text = <<"null">> THEN JsNull
    ELSE IF Head(text) = "-" THEN Num(0 - ParseDigits(Tail(text), 0))
    ELSE Num(ParseDigits(text, 0))

\* the index of the first token of text that ends a value, from k on
RECURSIVE ValueEnd(_, _)
ValueEnd(text, k) ==
    IF text[k] \in {",", "}"} THEN k ELSE ValueEnd(text, k + 1)

Unquote(tok) == CHOOSE key \in {"width", "height", "getArea"} : Quote(key) = tok

\* JSON.parse of the members from token k on
RECURSIVE ParseMembers(_, _)
ParseMembers(text, k) ==
    IF text[k] = "}" THEN << >>
    ELSE LET e == ValueEnd(text, k + 2)
             p == [key |-> Unquote(text[k]),
                   val |-> ParseValue(SubSeq(text, k + 2, e - 1))]
         IN  << p >> \o ParseMembers(text, IF text[e] = "," THEN e + 1 ELSE e)

JSON_parse(text) == ParseMembers(text, 2)

\* fromJSON(proto, json): the parsed properties become own properties of a new
\* object whose prototype is proto
fromJSON(proto, json) ==
    LET params == JSON_parse(json)
    IN  [own |-> params, proto |-> proto]

NoRect == [pc |-> "none", w |-> Num(0), h |-> Num(0), r |-> NoObject,
           json |-> << >>, o |-> NoObject,
           area |-> [err |-> NoError, val |-> Undefined]]

-----------------------------------------------------------------------------
(* cssSelectorBuilder: combine and stringify *)

\* stringify that reads res without emptying it
cssSelectorBuilder_stringify_keep(R) ==
    LET RECURSIVE Rev(_)
        Rev(q) == IF q = << >> THEN << >> ELSE q[Len(q)] \o Rev(SubSeq(q, 1, Len(q) - 1))
    IN  [out |-> Rev(R), res |-> R]

\* the while loop pops the entries, last pushed first
cssSelectorBuilder_stringify(R) ==
    LET RECURSIVE Pop(_, _)
        Pop(q, result) ==
            IF Len(q) > 0
            THEN Pop(SubSeq(q, 1, Len(q) - 1), result \o q[Len(q)])
            ELSE [out |-> result, res |-> q]
    IN  Pop(R, << >>)

\* a selector's stringify that takes the classes out of the array as it
\* renders them
Stringify_consuming(S, A, R, ref) ==
    IF ref = Builder
    THEN [S |-> S, A |-> A, out |-> cssSelectorBuilder_stringify(R).out,
          res |-> cssSelectorBuilder_stringify(R).res]
    ELSE [S |-> S, A |-> [A EXCEPT ![S[ref].config.class] = << >>],
          out |-> CssSelector_stringify(S, A, ref), res |-> R]

\* ref.stringify(), ref a selector or the facade itself: what it returns and
\* the heap and the storage it leaves; a selector's stringify assigns nothing
Stringify(S, A, R, ref) ==
    IF ref = Builder
    THEN [S |-> S, A |-> A, out |-> cssSelectorBuilder_stringify(R).out,
          res |-> cssSelectorBuilder_stringify(R).res]
    ELSE [S |-> S, A |-> A, out |-> CssSelector_stringify(S, A, ref), res |-> R]

\* combine with the operands the other way round
cssSelectorBuilder_combine_swapped(S, A, R, selector1, combinator, selector2) ==
    LET s2 == Stringify(S, A, R, selector2)
        s1 == Stringify(s2.S, s2.A, s2.res, selector1)
        result == s2.out \o <<" ">> \o combinator \o <<" ">> \o s1.out
    IN  [S |-> s1.S, A |-> s1.A, res |-> Append(s1.res, result), out |-> result,
         ret |-> Builder]

cssSelectorBuilder_combine(S, A, R, selector1, combinator, selector2) ==
    LET s1 == Stringify(S, A, R, selector1)
        s2 == Stringify(s1.S, s1.A, s1.res, selector2)
        result == s1.out \o <<" ">> \o combinator \o <<" ">> \o s2.out
    IN  [S |-> s2.S, A |-> s2.A, res |-> Append(s2.res, result), out |-> result,
         ret |-> Builder]

-----------------------------------------------------------------------------
(* The calls a client makes *)

RECURSIVE SumLen(_)
SumLen(h) == IF h = << >> THEN 0 ELSE Len(Head(h)) + SumLen(Tail(h))

PartsAdded == SumLen(hist)

Call(op, self, r) ==
    [op |-> op, self |-> self, err |-> r.err, ret |-> r.ret, out |-> << >>]

\* builder.<kind>(value): a new selector
\* no Error is in flight: the call before returned, or its Error was caught
Returned == last.err = NoError

CanCreate == Returned /\ Len(sels) < MaxSelectors /\ PartsAdded < MaxParts

Create(kind, value, r) ==
    /\ sels' = r.S
    /\ arrays' = r.A
    /\ hist' = Append(hist, << [kind |-> kind, value |-> value] >>)
    /\ last' = Call("new", 0, r)
    /\ pre' = [S |-> sels, A |-> arrays, res |-> res]
    /\ UNCHANGED <<res, trace, rect>>

\* selector.<kind>(value): a chained call, which returns or throws
Chain(kind, self, value, r) ==
    /\ Returned
    /\ r.err = NoError => PartsAdded < MaxParts
    /\ sels' = r.S
    /\ arrays' = r.A
    /\ hist' = IF r.err = NoError
               THEN [hist EXCEPT ![self] = Append(@, [kind |-> kind, value |-> value])]
               ELSE hist
    /\ last' = Call(kind, self, r)
    /\ pre' = [S |-> sels, A |-> arrays, res |-> res]
    /\ UNCHANGED <<res, trace, rect>>

BuilderElement ==
    \E v \in Values : /\ CanCreate /\ Create("element", v, cssSelectorBuilder_element(sels, arrays, v))
BuilderId ==
    \E v \in Values : /\ CanCreate /\ Create("id", v, cssSelectorBuilder_id(sels, arrays, v))
BuilderClass ==
    \E v \in Values : /\ CanCreate /\ Create("class", v, cssSelectorBuilder_class(sels, arrays, v))
BuilderAttr ==
    \E v \in Values : /\ CanCreate /\ Create("attr", v, cssSelectorBuilder_attr(sels, arrays, v))
BuilderPseudoClass ==
    \E v \in Values :
        /\ CanCreate
        /\ Create("pseudoClass", v, cssSelectorBuilder_pseudoClass(sels, arrays, v))
BuilderPseudoElement ==
    \E v \in Values :
        /\ CanCreate
        /\ Create("pseudoElement", v, cssSelectorBuilder_pseudoElement(sels, arrays, v))

SelectorElement ==
    \E self \in 1..Len(sels), v \in Values :
        Chain("element", self, v, CssSelector_element(sels, arrays, self, v))
SelectorId ==
    \E self \in 1..Len(sels), v \in Values :
        Chain("id", self, v, CssSelector_id(sels, arrays, self, v))
SelectorClass ==
    \E self \in 1..Len(sels), v \in Values :
        Chain("class", self, v, CssSelector_class(sels, arrays, self, v))
SelectorAttr ==
    \E self \in 1..Len(sels), v \in Values :
        Chain("attr", self, v, CssSelector_attr(sels, arrays, self, v))
SelectorPseudoClass ==
    \E self \in 1..Len(sels), v \in Values :
        Chain("pseudoClass", self, v, CssSelector_pseudoClass(sels, arrays, self, v))
SelectorPseudoElement ==
    \E self \in 1..Len(sels), v \in Values :
        Chain("pseudoElement", self, v, CssSelector_pseudoElement(sels, arrays, self, v))

\* selector.stringify()
SelectorStringify ==
    \E self \in 1..Len(sels) :
        LET r == Stringify(sels, arrays, res, self)
        IN  /\ Returned
            /\ sels' = r.S
            /\ arrays' = r.A
            /\ res' = r.res
            /\ last' = [op |-> "stringify", self |-> self, err |-> NoError,
                        ret |-> 0, out |-> r.out]
            /\ pre' = [S |-> sels, A |-> arrays, res |-> res]
            /\ UNCHANGED <<hist, trace, rect>>

\* the Error a part method threw reaches the caller, which catches it and goes on
Catch ==
    /\ ~Returned
    /\ last' = [op |-> "catch", self |-> 0, err |-> NoError, ret |-> 0, out |-> << >>]
    /\ UNCHANGED <<sels, arrays, res, hist, pre, trace, rect>>

Init ==
    /\ sels = << >>
    /\ arrays = << >>
    /\ res = << >>
    /\ hist = << >>
    /\ last = [op |-> "init", self |-> 0, err |-> NoError, ret |-> 0, out |-> << >>]
    /\ pre = [S |-> << >>, A |-> << >>, res |-> << >>]
    /\ trace = << >>
    /\ rect = NoRect

Next ==
    \/ BuilderElement
    \/ BuilderId
    \/ BuilderClass
    \/ BuilderAttr
    \/ BuilderPseudoClass
    \/ BuilderPseudoElement
    \/ SelectorElement
    \/ SelectorId
    \/ SelectorClass
    \/ SelectorAttr
    \/ SelectorPseudoClass
    \/ SelectorPseudoElement
    \/ SelectorStringify
    \/ Catch

Spec == Init /\ [][Next]_vars

-----------------------------------------------------------------------------
(* The facade's combine and stringify, on selectors already built *)

\* what a client holds that has a stringify method: the selectors and, once a
\* combine has returned it, the facade
Renderables ==
    (1..Len(sels)) \cup (IF \E k \in 1..Len(trace) : trace[k].op = "combine"
                         THEN {Builder} ELSE {})

\* builder.combine(selector1, combinator, selector2)
BuilderCombine ==
    \E selector1 \in Renderables, selector2 \in Renderables, c \in Combinators :
        LET r == cssSelectorBuilder_combine(sels, arrays, res, selector1, c, selector2)
        IN  /\ Len(trace) < MaxFacadeCalls
            /\ sels' = r.S
            /\ arrays' = r.A
            /\ res' = r.res
            /\ last' = [op |-> "combine", self |-> Builder, err |-> NoError,
                        ret |-> r.ret, out |-> r.out]
            /\ pre' = [S |-> sels, A |-> arrays, res |-> res]
            /\ trace' = Append(trace, [op |-> "combine", l |-> selector1, c |-> c,
                                       r |-> selector2, out |-> r.out, pre |-> res])
            /\ UNCHANGED <<hist, rect>>

\* builder.stringify()
BuilderStringify ==
    LET r == cssSelectorBuilder_stringify(res)
    IN  /\ Len(trace) < MaxFacadeCalls
        /\ res' = r.res
        /\ last' = [op |-> "builder.stringify", self |-> Builder, err |-> NoError,
                    ret |-> 0, out |-> r.out]
        /\ pre' = [S |-> sels, A |-> arrays, res |-> res]
        /\ trace' = Append(trace, [op |-> "stringify", l |-> 0, c |-> << >>,
                                   r |-> 0, out |-> r.out, pre |-> res])
        /\ UNCHANGED <<sels, arrays, hist, rect>>

\* builder.element('a').class(v) and builder.id(w) have been evaluated
InitFacade ==
    \E v \in Values, w \in Values :
        LET s1 == cssSelectorBuilder_element(<< >>, << >>, <<"a">>)
            s2 == CssSelector_class(s1.S, s1.A, s1.ret, v)
            s3 == cssSelectorBuilder_id(s2.S, s2.A, w)
        IN  /\ sels = s3.S
            /\ arrays = s3.A
            /\ hist = << << [kind |-> "element", value |-> <<"a">>],
                            [kind |-> "class", value |-> v] >>,
                         << [kind |-> "id", value |-> w] >> >>
            /\ res = << >>
            /\ last = [op |-> "new", self |-> 0, err |-> NoError, ret |-> s3.ret,
                       out |-> << >>]
            /\ pre = [S |-> s2.S, A |-> s2.A, res |-> << >>]
            /\ trace = << >>
            /\ rect = NoRect
    /\ rect = NoRect

\* selector.stringify(), called among the facade's calls
FacadeSelectorStringify ==
    \E self \in 1..Len(sels) :
        LET r == Stringify(sels, arrays, res, self)
        IN  /\ Len(trace) < MaxFacadeCalls
            /\ sels' = r.S
            /\ arrays' = r.A
            /\ res' = r.res
            /\ last' = [op |-> "stringify", self |-> self, err |-> NoError,
                        ret |-> 0, out |-> r.out]
            /\ pre' = [S |-> sels, A |-> arrays, res |-> res]
            /\ trace' = Append(trace, [op |-> "selector.stringify", l |-> self,
                                       c |-> << >>, r |-> 0, out |-> r.out,
                                       pre |-> res])
            /\ UNCHANGED <<hist, rect>>

NextFacade ==
    \/ BuilderCombine
    \/ BuilderStringify
    \/ FacadeSelectorStringify

FacadeSpec == InitFacade /\ [][NextFacade]_vars

-----------------------------------------------------------------------------
(* The round trip of a rectangle through JSON *)

Idle == UNCHANGED <<sels, arrays, res, hist, last, pre, trace>>

\* r = new Rectangle(w, h)
NewRectangle ==
    /\ rect.pc = "args"
    /\ rect' = [rect EXCEPT !.pc = "constructed", !.r = Rectangle(rect.w, rect.h)]
    /\ Idle

\* json = getJSON(r)
CallGetJSON ==
    /\ rect.pc = "constructed"
    /\ rect' = [rect EXCEPT !.pc = "encoded", !.json = getJSON(rect.r)]
    /\ Idle

\* o = fromJSON(Rectangle.prototype, json)
CallFromJSON ==
    /\ rect.pc = "encoded"
    /\ rect' = [rect EXCEPT !.pc = "decoded",
                            !.o = fromJSON("Rectangle.prototype", rect.json)]
    /\ Idle

\* o.getArea()
CallGetArea ==
    /\ rect.pc = "decoded"
    /\ rect' = [rect EXCEPT !.pc = "called", !.area = GetArea(rect.o, rect.r)]
    /\ Idle

InitJSON ==
    /\ \E w \in Numbers, h \in Numbers :
           rect = [NoRect EXCEPT !.pc = "args", !.w = w, !.h = h]
    /\ sels = << >>
    /\ arrays = << >>
    /\ res = << >>
    /\ hist = << >>
    /\ last = [op |-> "init", self |-> 0, err |-> NoError, ret |-> 0, out |-> << >>]
    /\ pre = [S |-> << >>, A |-> << >>, res |-> << >>]
    /\ trace = << >>

NextJSON ==
    \/ NewRectangle
    \/ CallGetJSON
    \/ CallFromJSON
    \/ CallGetArea

JSONSpec == InitJSON /\ [][NextJSON]_vars

-----------------------------------------------------------------------------
(* What the claims speak of, read off the calls made (hist), not the fields *)

Kinds == {"element", "id", "class", "attr", "pseudoClass", "pseudoElement"}
Singular == {"element", "id", "pseudoElement"}

Rank(kind) ==
    CASE kind = "element" -> 0
      [] kind = "id" -> 1
      [] kind = "class" -> 2
      [] kind = "attr" -> 3
      [] kind = "pseudoClass" -> 4
      [] kind = "pseudoElement" -> 5

IsChain == last.op \in Kinds
Failed == last.err # NoError

\* the parts selector self had before the last call
PreHist(self) ==
    IF IsChain /\ last.self = self /\ ~Failed
    THEN SubSeq(hist[self], 1, Len(hist[self]) - 1)
    ELSE hist[self]

\* the values passed for one kind, in call order
RECURSIVE ValuesOf(_, _)
ValuesOf(h, kind) ==
    IF h = << >> THEN << >>
    ELSE (IF Head(h).kind = kind THEN << Head(h).value >> ELSE << >>)
         \o ValuesOf(Tail(h), kind)

WasSet(h, kind) == ValuesOf(h, kind) # << >>
\* the value a singular part holds: the one passed last
Held(h, kind) == ValuesOf(h, kind)[Len(ValuesOf(h, kind))]
HoldsText(h, kind) == WasSet(h, kind) /\ Held(h, kind) # << >>

LastRank(h) == Rank(h[Len(h)].kind)

\* the parts were added in non-decreasing rank order, each singular part once
InOrder(h) ==
    /\ \A k \in 1..(Len(h) - 1) : Rank(h[k].kind) <= Rank(h[k + 1].kind)
    /\ \A kind \in Singular : Len(ValuesOf(h, kind)) <= 1

\* a selector as a client sees it: its fields with the arrays read through
View(S, A, i) ==
    [element |-> S[i].config.element, id |-> S[i].config.id,
     class |-> A[S[i].config.class], attr |-> A[S[i].config.attr],
     pseudoClass |-> A[S[i].config.pseudoClass],
     pseudoElement |-> S[i].config.pseudoElement,
     currentOrder |-> S[i].currentOrder]

-----------------------------------------------------------------------------
\* C1 (as stated): a chained call whose rank is below the rank of the part added
\* last throws the ordering error; a call whose rank is not below it and that
\* does not repeat a singular part already set succeeds.
C1_AsStated ==
    IsChain =>
        LET h == PreHist(last.self)
        IN  /\ Rank(last.op) < LastRank(h) => last.err = OrderError
            /\ (Rank(last.op) >= LastRank(h)
                    /\ ~(last.op \in Singular /\ WasSet(h, last.op)))
                => last.err = NoError

\* C1 (amended): a chained call whose rank is below the rank of the part added
\* last throws: the uniqueness error when it is element or id and that part
\* already holds a non-empty string, the ordering error when that part was
\* never set or the call is class, attr or pseudoClass; a call whose rank is
\* not below it and that does not repeat a singular part already set succeeds.
C1_OrderingRule ==
    IsChain =>
        LET h == PreHist(last.self)
        IN  /\ Rank(last.op) < LastRank(h) =>
                   /\ Failed
                   /\ (last.op \in Singular /\ HoldsText(h, last.op))
                          => last.err = DuplicateError
                   /\ ~(last.op \in Singular /\ WasSet(h, last.op))
                          => last.err = OrderError
            /\ (Rank(last.op) >= LastRank(h)
                    /\ ~(last.op \in Singular /\ WasSet(h, last.op)))
                => last.err = NoError

\* a lower-rank call made after two parts were added threw the ordering error
C1_Witness ==
    /\ IsChain
    /\ last.err = OrderError
    /\ Len(hist[last.self]) >= 2
    /\ Rank(last.op) < LastRank(hist[last.self])

\* C2: element, id or pseudoElement called on a selector whose part of that
\* kind already holds a non-empty string, set by the creation call or by an
\* earlier chained call, throws the uniqueness error.
C2_UniquenessRule ==
    (IsChain /\ last.op \in Singular /\ HoldsText(PreHist(last.self), last.op))
        => last.err = DuplicateError

\* a singular part was repeated after another part had been added in between
C2_Witness ==
    /\ IsChain
    /\ last.err = DuplicateError
    /\ Len(hist[last.self]) >= 2
    /\ hist[last.self][Len(hist[last.self])].kind # last.op

\* the render the format rule gives for the parts h: every part that was set
\* is rendered, with its punctuation
FormatOf(h) ==
    (IF WasSet(h, "element") THEN Held(h, "element") ELSE << >>)
    \o (IF WasSet(h, "id") THEN <<"#">> \o Held(h, "id") ELSE << >>)
    \o Wrap(ValuesOf(h, "class"), <<".">>, << >>)
    \o Wrap(ValuesOf(h, "attr"), <<"[">>, <<"]">>)
    \o Wrap(ValuesOf(h, "pseudoClass"), <<":">>, << >>)
    \o (IF WasSet(h, "pseudoElement")
        THEN <<":", ":">> \o Held(h, "pseudoElement") ELSE << >>)

\* C3 (as stated): a selector built by calls in non-decreasing rank order, each
\* singular part at most once, renders as element, '#'+id, '.'+class...,
\* '['+attr+']'..., ':'+pseudoClass..., '::'+pseudoElement, for every part set.
C3_AsStated ==
    \A i \in 1..Len(sels) :
        InOrder(hist[i]) => CssSelector_stringify(sels, arrays, i) = FormatOf(hist[i])

Multi == {"class", "attr", "pseudoClass"}

\* what the classes, attributes and pseudo-classes passed contribute
Middle(h) ==
    Wrap(ValuesOf(h, "class"), <<".">>, << >>)
    \o Wrap(ValuesOf(h, "attr"), <<"[">>, <<"]">>)
    \o Wrap(ValuesOf(h, "pseudoClass"), <<":">>, << >>)

Segment(text, part) ==
    \E k \in 0..(Len(text) - Len(part)) : SubSeq(text, k + 1, k + Len(part)) = part

Count(text, ch) == Cardinality({k \in 1..Len(text) : text[k] = ch})

\* a part was just added: by a creation call or by a chained call that returned
Added == (last.op = "new" \/ IsChain) /\ ~Failed

\* C4: a class call right after a class part (likewise attr, pseudoClass)
\* succeeds, and whenever a part has been added, the values passed so far to
\* class, attr and pseudoClass, duplicates included, are in the selector's
\* render once per call and in call order.
C4_RepeatedParts ==
    /\ (IsChain /\ last.op \in Multi
            /\ Rank(last.op) = LastRank(PreHist(last.self)))
        => last.err = NoError
    /\ Added =>
           LET text == CssSelector_stringify(sels, arrays, last.ret)
               h == hist[last.ret]
           IN  /\ Segment(text, Middle(h))
               /\ Count(text, ".") = Len(ValuesOf(h, "class"))
               /\ Count(text, "[") = Len(ValuesOf(h, "attr"))
               /\ Count(text, "]") = Len(ValuesOf(h, "attr"))

\* the same value was passed to class three times in a row and rendered thrice
C4_Witness ==
    \E i \in 1..Len(sels) :
        /\ ValuesOf(hist[i], "class") = << <<"a">>, <<"a">>, <<"a">> >>
        /\ IsChain /\ last.self = i /\ last.op = "class" /\ ~Failed
        /\ CssSelector_stringify(sels, arrays, i) = <<".", "a", ".", "a", ".", "a">>

\* C8: a chained call that throws leaves the selector's fields, the arrays
\* they refer to and currentOrder as they were.
C8_FailedCallNoEffect ==
    (IsChain /\ Failed) => (sels = pre.S /\ arrays = pre.A)

\* a call threw on a selector that holds parts
C8_Witness ==
    /\ IsChain /\ Failed
    /\ Len(hist[last.self]) >= 2

\* the addresses one selector's config refers to
Refs(S, i) == {S[i].config.class, S[i].config.attr, S[i].config.pseudoClass}

\* selector.<kind>(value)
Method(kind, S, A, self, value) ==
    CASE kind = "element" -> CssSelector_element(S, A, self, value)
      [] kind = "id" -> CssSelector_id(S, A, self, value)
      [] kind = "class" -> CssSelector_class(S, A, self, value)
      [] kind = "attr" -> CssSelector_attr(S, A, self, value)
      [] kind = "pseudoClass" -> CssSelector_pseudoClass(S, A, self, value)
      [] kind = "pseudoElement" -> CssSelector_pseudoElement(S, A, self, value)

\* the heap that holds selector i and nothing else
Alone(S, A, i) ==
    [S |-> << [S[i] EXCEPT !.config.class = 1, !.config.attr = 2,
                           !.config.pseudoClass = 3] >>,
     A |-> << A[S[i].config.class], A[S[i].config.attr], A[S[i].config.pseudoClass] >>]

\* C9: a creation call returns a selector that is new and refers to arrays no
\* other selector refers to; a chained call on one selector leaves every other
\* selector as it was, and throws or changes its own selector exactly as the
\* same call does on a heap that holds this selector alone; a chained call
\* that succeeds returns the selector it was called on.
C9_Independence ==
    /\ last.op = "new" =>
           /\ \A j \in 1..Len(pre.S) : Refs(sels, j) \cap Refs(sels, last.ret) = {}
           /\ last.ret = Len(pre.S) + 1
           /\ Len(sels) = Len(pre.S) + 1
           /\ \A j \in 1..Len(pre.S) : View(sels, arrays, j) = View(pre.S, pre.A, j)
    /\ IsChain =>
           /\ \A j \in 1..Len(sels) :
                  j # last.self => View(sels, arrays, j) = View(pre.S, pre.A, j)
           /\ \E v \in Values :
                  LET own == Alone(pre.S, pre.A, last.self)
                      r == Method(last.op, own.S, own.A, 1, v)
                  IN  /\ r.err = last.err
                      /\ View(r.S, r.A, 1) = View(sels, arrays, last.self)
           /\ ~Failed => last.ret = last.self

\* a multi-valued part was added to the second of two selectors
C9_Witness ==
    /\ Len(sels) = 2
    /\ IsChain /\ ~Failed /\ last.self = 2 /\ last.op \in Multi
    /\ Len(hist[1]) >= 1

\* C13 (as stated): a chained element, id or pseudoElement call on a selector
\* that already has that part and whose last part has a higher rank throws the
\* uniqueness error, never the ordering error.
C13_AsStated ==
    (IsChain /\ last.op \in Singular
        /\ WasSet(PreHist(last.self), last.op)
        /\ Rank(last.op) < LastRank(PreHist(last.self)))
        => last.err = DuplicateError

\* C14 (as stated): a chained element, id or pseudoElement call on a selector
\* whose part of that kind was set to the empty string throws the uniqueness
\* error.
C14_AsStated ==
    (IsChain /\ last.op \in Singular
        /\ WasSet(PreHist(last.self), last.op)
        /\ Held(PreHist(last.self), last.op) = << >>)
        => last.err = DuplicateError

\* the part kinds present in a selector's config
Present(S, A, i) ==
    {kind \in Singular : S[i].config[kind] # Null}
        \cup {kind \in Multi : A[S[i].config[kind]] # << >>}

\* C17: in every state every selector's currentOrder is in 0..5, is at least
\* the rank of every part kind present in its config, is the rank of the part
\* added to it last, and is not below what it was before the last call.
C17_RankInvariant ==
    /\ \A i \in 1..Len(sels) :
           /\ sels[i].currentOrder \in 0..5
           /\ \A kind \in Present(sels, arrays, i) : Rank(kind) <= sels[i].currentOrder
           /\ sels[i].currentOrder = LastRank(hist[i])
    /\ \A i \in 1..Len(pre.S) : pre.S[i].currentOrder <= sels[i].currentOrder

\* a chained call raised a selector's rank over parts of three kinds
C17_Witness ==
    /\ IsChain /\ ~Failed
    /\ Cardinality(Present(sels, arrays, last.self)) = 3
    /\ pre.S[last.self].currentOrder < sels[last.self].currentOrder
    /\ sels[last.self].currentOrder = 4

\* C18 (as stated): on a selector whose pseudo-element holds a non-empty
\* string every part-method call throws: pseudoElement the uniqueness error,
\* element and id the uniqueness error if that part was set and the ordering
\* error otherwise, class, attr and pseudoClass the ordering error; and the
\* selector's render stays what it was.
C18_AsStated ==
    (IsChain /\ HoldsText(PreHist(last.self), "pseudoElement")) =>
        LET h == PreHist(last.self)
        IN  /\ last.err = IF last.op \in Singular /\ WasSet(h, last.op)
                             THEN DuplicateError ELSE OrderError
            /\ CssSelector_stringify(sels, arrays, last.self)
                   = CssSelector_stringify(pre.S, pre.A, last.self)

-----------------------------------------------------------------------------
(* Combination *)

Render(i) == CssSelector_stringify(sels, arrays, i)
Joined(left, c, right) == left \o <<" ">> \o c \o <<" ">> \o right

IsSimple(call) == call.op = "combine" /\ call.l # Builder /\ call.r # Builder

\* C5: combine(left, c, right) called with two selectors on a facade whose
\* storage is empty, then stringify(), gives left.stringify() + ' ' + c + ' ' +
\* right.stringify(), whatever string c is.
C5_SimpleCombination ==
    \A k \in 1..(Len(trace) - 1) :
        (IsSimple(trace[k]) /\ trace[k].pre = << >> /\ trace[k + 1].op = "stringify")
            => trace[k + 1].out
                   = Joined(Render(trace[k].l), trace[k].c, Render(trace[k].r))

\* 'a.a ? #a' was rendered: two different selectors joined by a string that is
\* no CSS combinator
C5_Witness ==
    /\ Len(trace) >= 2
    /\ IsSimple(trace[1]) /\ trace[1].l = 1 /\ trace[1].r = 2 /\ trace[1].c = <<"?">>
    /\ trace[2].op = "stringify"
    /\ trace[2].out = <<"a", ".", "a", " ", "?", " ", "#", "a">>

\* combine(combine(a, c1, b), c2, c).stringify(), evaluated with storage R
NestedLeft(R, a, c1, b, c2, c) ==
    LET inner == cssSelectorBuilder_combine(sels, arrays, R, a, c1, b)
        outer == cssSelectorBuilder_combine(sels, arrays, inner.res, inner.ret, c2, c)
    IN  cssSelectorBuilder_stringify(outer.res).out

\* combine(a, c1, combine(b, c2, c)).stringify(), evaluated with storage R
NestedRight(R, a, c1, b, c2, c) ==
    LET inner == cssSelectorBuilder_combine(sels, arrays, R, b, c2, c)
        outer == cssSelectorBuilder_combine(sels, arrays, inner.res, a, c1, inner.ret)
    IN  cssSelectorBuilder_stringify(outer.res).out

\* C6 (as stated): for all selectors a, b, c and combinators c1, c2, a
\* combination nested on the left or on the right renders as
\* render(a) c1 render(b) c2 render(c), in whatever state the facade is.
C6_AsStated ==
    \A a, b, c \in 1..Len(sels), c1, c2 \in Combinators :
        LET ideal == Joined(Joined(Render(a), c1, Render(b)), c2, Render(c))
        IN  /\ NestedLeft(res, a, c1, b, c2, c) = ideal
            /\ NestedRight(res, a, c1, b, c2, c) = ideal

\* C7 (as stated): what stringify() gives right after a combine of two
\* selectors does not depend on the combine calls made before.
C7_AsStated ==
    \A k \in 1..(Len(trace) - 1) :
        (IsSimple(trace[k]) /\ trace[k + 1].op = "stringify")
            => trace[k + 1].out
                   = Joined(Render(trace[k].l), trace[k].c, Render(trace[k].r))

\* combine(combine(a, c1, b), c2, combine(c, c3, d)).stringify(), evaluated
\* with storage R: the arguments are evaluated left to right, then the call
NestedBoth(R, a, c1, b, c2, c, c3, d) ==
    LET left == cssSelectorBuilder_combine(sels, arrays, R, a, c1, b)
        right == cssSelectorBuilder_combine(sels, arrays, left.res, c, c3, d)
        outer == cssSelectorBuilder_combine(sels, arrays, right.res,
                                            left.ret, c2, right.ret)
    IN  cssSelectorBuilder_stringify(outer.res).out

\* C11 (as stated): for all selectors a, b, c, d and combinators c1, c2, c3, a
\* combination whose two operands are combinations renders as
\* render(a) c1 render(b) c2 render(c) c3 render(d).
C11_AsStated ==
    \A a, b, c, d \in 1..Len(sels), c1, c2, c3 \in Combinators :
        NestedBoth(res, a, c1, b, c2, c, c3, d)
            = Joined(Joined(Render(a), c1, Render(b)), c2,
                     Joined(Render(c), c3, Render(d)))

\* C12 (as stated): a combine call leaves the facade's storage as it was, and
\* rendering the result of one combine call twice gives the same string twice.
C12_AsStated ==
    /\ last.op = "combine" => res = pre.res
    /\ \A k \in 1..(Len(trace) - 2) :
           (trace[k].op = "combine" /\ trace[k + 1].op = "stringify"
                /\ trace[k + 2].op = "stringify")
               => trace[k + 2].out = trace[k + 1].out

\* the stored strings joined, the one stored last first, with no separator
RECURSIVE Reversed(_)
Reversed(q) == IF q = << >> THEN << >> ELSE Reversed(Tail(q)) \o Head(q)

\* the facade's storage right after its k-th call
After(k) == IF k < Len(trace) THEN trace[k + 1].pre ELSE res

\* C15: after a combine call its string is the last entry of the facade's
\* storage, and when both operands are selectors the storage is what it was
\* with that string appended; a facade stringify() returns the stored strings
\* joined in reverse order of insertion with no separator and leaves the
\* storage empty, so a stringify() right after a stringify() returns ''.
C15_Accumulator ==
    \A k \in 1..Len(trace) :
        /\ trace[k].op = "combine" =>
               /\ After(k) # << >>
               /\ After(k)[Len(After(k))] = trace[k].out
               /\ IsSimple(trace[k]) =>
                      /\ trace[k].out
                             = Joined(Render(trace[k].l), trace[k].c, Render(trace[k].r))
                      /\ After(k) = Append(trace[k].pre, trace[k].out)
        /\ trace[k].op = "stringify" =>
               /\ trace[k].out = Reversed(trace[k].pre)
               /\ After(k) = << >>
               /\ (k > 1 /\ trace[k - 1].op = "stringify") => trace[k].out = << >>

\* two different combinations were stored and stringify() returned the second
\* followed by the first, leaving the storage empty
C15_Witness ==
    /\ Len(trace) = 3
    /\ IsSimple(trace[1]) /\ IsSimple(trace[2])
    /\ trace[1].out # trace[2].out
    /\ trace[3].op = "stringify"
    /\ trace[3].pre = << trace[1].out, trace[2].out >>
    /\ trace[3].out = trace[2].out \o trace[1].out
    /\ res = << >>

\* the last call rendered selectors: a selector's stringify() or a combine
Rendered == last.op \in {"stringify", "combine"}

\* C16: a selector's stringify() and a combine leave every selector's config,
\* the arrays it refers to and currentOrder as they were; all the stringify()
\* calls made on one selector, whatever facade calls come between them,
\* return the same string, and so does one made next; and every part-method
\* call made next throws or changes its selector exactly as it would have had
\* the render or the combine not been made.
C16_RenderReadOnly ==
    Rendered =>
        /\ sels = pre.S
        /\ arrays = pre.A
        /\ last.op = "stringify" =>
               Stringify(sels, arrays, res, last.self).out = last.out
        /\ \A j, k \in 1..Len(trace) :
               (trace[j].op = "selector.stringify" /\ trace[k].op = "selector.stringify"
                    /\ trace[j].l = trace[k].l)
                   => trace[j].out = trace[k].out
        /\ \A i \in 1..Len(sels), kind \in Kinds, v \in Values :
               Method(kind, sels, arrays, i, v) = Method(kind, pre.S, pre.A, i, v)

\* 'a.a' was rendered from a selector before and after a combine took it as
\* an operand
C16_Witness ==
    /\ Len(trace) = 3
    /\ trace[1].op = "selector.stringify" /\ trace[1].l = 1
    /\ IsSimple(trace[2]) /\ trace[2].l = 1
    /\ trace[3].op = "selector.stringify" /\ trace[3].l = 1
    /\ last.op = "stringify" /\ last.self = 1
    /\ last.out = <<"a", ".", "a">>

-----------------------------------------------------------------------------
(* JSON round trip *)

Keys(obj) == [k \in 1..Len(obj.own) |-> obj.own[k].key]

\* C10 (as stated): o = fromJSON(Rectangle.prototype, getJSON(new Rectangle(w,
\* h))) has exactly the own fields width = w and height = h, and getArea is
\* not an own field but is got through the prototype and returns w * h.
C10_AsStated ==
    /\ rect.pc \in {"decoded", "called"} =>
           /\ Keys(rect.o) = <<"width", "height">>
           /\ Get(rect.o, "width") = rect.w
           /\ Get(rect.o, "height") = rect.h
           /\ ~HasOwn(rect.o, "getArea")
           /\ Get(rect.o, "getArea").t = "function"
    /\ rect.pc = "called" =>
           /\ rect.area.err = NoError
           /\ rect.area.val = Times(rect.w, rect.h)

====
